---- MODULE Spec2Model ----
(***************************************************************************)
(* Model of xai_sdk/poll_timer.py: the PollTimer class.                    *)
(*                                                                         *)
(* Representation of numbers.  A datetime.timedelta is an integer number   *)
(* of milliseconds.  A float number of seconds (time.time(), the result of *)
(* total_seconds(), runtime, the returned sleep) is an exact rational kept *)
(* as an integer count of units, one unit being 1/(100 * UDen) ms, so that *)
(* interval * jitter_factor * (2u - 1) is an integer for a jitter factor   *)
(* in whole percent and a random draw u = k / UDen.  A float that may be   *)
(* NaN (the jitter_factor argument, in percent) is a record [nan, v].      *)
(* Rounding of binary floating point is not modelled.                      *)
(***************************************************************************)
EXTENDS Integers, Sequences, FiniteSets, TLC

\* ---------------------------------------------------------------- bounds
\* random.random() is drawn from {0, 1/UDen, ..., (UDen-1)/UDen}, a grid on [0, 1)
UDen == 4
\* processing time per iteration of the polling loop, in ms, when it is not zero
OverheadMs == 1
\* the polling loop is followed until the clock reads this many ms
MaxLoopClockMs == 1000

\* ------------------------------------------------------ program constants
\* datetime.timedelta(minutes=10), in ms
DefaultTimeoutMs == 600000
\* datetime.timedelta(milliseconds=100), in ms
DefaultIntervalMs == 100
\* jitter_factor: float = 0.1, in percent
DefaultJitterPct == 10

\* ------------------------------------------------------------ input sets
\* Optional[timedelta]: None is the empty tuple, a value td is <<td>> (ms)
None == << >>
Some(td) == << td >>

TimeoutArgs == { None, Some(0), Some(-1000), Some(1000) }
IntervalArgs == { None, Some(0), Some(-100), Some(100) }

\* floats: a number v (percent for jitter factors) or NaN
Num(v) == [nan |-> FALSE, v |-> v]
NaN == [nan |-> TRUE, v |-> 0]
JitterArgs == { NaN, Num(-300), Num(0), Num(DefaultJitterPct), Num(40), Num(500) }

\* readings of time.time() the environment may produce, in ms
ClockReadingsMs == { 0, 50, 950, 1000, 1001, 600001 }

\* timeout arguments of the polling-loop specification
LoopTimeoutArgs == { Some(-1000), Some(300) }
Overheads == { 0, OverheadMs }

\* -------------------------------------------------------------- helpers
\* units per millisecond
UnitsPerMs == 100 * UDen
\* time.time() reading of ms milliseconds, as a float of the model
Reading(ms) == ms * UnitsPerMs
ClockReadings == { Reading(ms) : ms \in ClockReadingsMs }
\* the values random.random() may return (numerators over UDen)
RandomDraws == 0 .. (UDen - 1)

\* float comparison a < b: false when either side is NaN
PyLt(a, b) == ~a.nan /\ ~b.nan /\ a.v < b.v
\* builtin min(a, b): the first argument unless the second is smaller
PyMin(a, b) == IF PyLt(b, a) THEN b ELSE a
\* builtin max(a, b): the first argument unless the second is larger
PyMax(a, b) == IF PyLt(a, b) THEN b ELSE a
\* min / max on floats that are known numbers
MinNum(a, b) == IF b < a THEN b ELSE a
MaxNum(a, b) == IF a < b THEN b ELSE a

\* truth value of an Optional[timedelta]: None and timedelta(0) are falsy
Truthy(arg) == arg # None /\ arg[1] # 0
\* `arg or default`
OrDefault(arg, default) == IF Truthy(arg) THEN arg[1] ELSE default

\* timedelta.total_seconds(): ms -> float (units)
total_seconds(td) == td * UnitsPerMs

\* max(0.0, min(1.0, jitter_factor)), in percent
ClampNoLower(jitter_factor) == PyMin(Num(100), jitter_factor)
Clamp(jitter_factor) == PyMax(Num(0), PyMin(Num(100), jitter_factor))

VARIABLES
    pc,              \* "new" before __init__, "idle" between calls, "called" after a call
    now,             \* the current reading of time.time()
    setBack,         \* the system clock has been set back at some point
    timeoutArg,      \* arguments of __init__
    intervalArg,
    jitterArg,
    _start,          \* self._start
    _timeout,        \* self._timeout (timedelta, ms)
    _interval,       \* self._interval (timedelta, ms)
    _jitter_factor,  \* self._jitter_factor (float, percent)
    last,            \* what the latest call of sleep_interval_or_raise did
    returnedBefore,  \* some call before the latest one returned a value
    raisedBefore,    \* some call before the latest one raised TimeoutError
    overhead         \* processing time per iteration of the polling loop (units)

vars == << pc, now, setBack, timeoutArg, intervalArg, jitterArg, _start, _timeout,
           _interval, _jitter_factor, last, returnedBefore, raisedBefore, overhead >>

args == << timeoutArg, intervalArg, jitterArg >>
fields == << _start, _timeout, _interval, _jitter_factor >>

NoCall == [outcome |-> "None", clock |-> 0, runtime |-> 0, draws |-> 0, u |-> 0,
           candidate |-> 0, result |-> 0, reported |-> << >>]

\* ------------------------------------------------ sleep_interval_or_raise
\* runtime > self._timeout.total_seconds()
TimedOut(runtime, timeout) == runtime > total_seconds(timeout)

\* self._jitter_factor > 0: the branch that calls random.random()
DrawsRandomAlways(jitter_factor) == TRUE
DrawsRandom(jitter_factor) == PyLt(Num(0), jitter_factor)

\* base_interval * self._jitter_factor * (2 * random.random() - 1)
JitterOneSided(base_interval, jitter_factor, u) ==
    (base_interval * jitter_factor.v * (2 * u)) \div (100 * UDen)
Jitter(base_interval, jitter_factor, u) ==
    (base_interval * jitter_factor.v * (2 * u - UDen)) \div (100 * UDen)

\* interval_with_jitter
IntervalWithJitter(base_interval, jitter_factor, u) ==
    IF DrawsRandom(jitter_factor)
    THEN MaxNum(0, base_interval + Jitter(base_interval, jitter_factor, u))
    ELSE base_interval

\* min(self._timeout.total_seconds() - runtime, interval_with_jitter)
SleepResultNoClip(remaining, interval_with_jitter) == interval_with_jitter
SleepResult(remaining, interval_with_jitter) == MinNum(remaining, interval_with_jitter)

\* the method assigns no attribute: the fields after a call made at reading clock
StartAfterCallRestart(clock) == clock
StartAfterCall(clock) == _start
IntervalAfterCallBackoff(outcome) == IF outcome = "Return" THEN 2 * _interval ELSE _interval
IntervalAfterCall(outcome) == _interval

\* one call at clock reading `clock` with random draw u (unused when none is drawn)
Outcome(clock, u) ==
    LET runtime == clock - _start
        base_interval == total_seconds(_interval)
        drew == DrawsRandom(_jitter_factor)
        candidate == IntervalWithJitter(base_interval, _jitter_factor, u)
    IN  IF TimedOut(runtime, _timeout)
        THEN [outcome |-> "Timeout", clock |-> clock, runtime |-> runtime, draws |-> 0,
              u |-> 0, candidate |-> 0, result |-> 0, reported |-> << runtime >>]
        ELSE [outcome |-> "Return", clock |-> clock, runtime |-> runtime,
              draws |-> IF drew THEN 1 ELSE 0,
              u |-> IF drew THEN u ELSE 0,
              candidate |-> candidate,
              result |-> SleepResult(total_seconds(_timeout) - runtime, candidate),
              reported |-> << >>]

\* ---------------------------------------------------------------- actions
Setup(timeouts) ==
    /\ pc = "new"
    /\ now = Reading(0)
    /\ setBack = FALSE
    /\ timeoutArg \in timeouts
    /\ intervalArg \in IntervalArgs
    /\ jitterArg \in JitterArgs
    /\ _start = 0
    /\ _timeout = 0
    /\ _interval = 0
    /\ _jitter_factor = Num(0)
    /\ last = NoCall
    /\ returnedBefore = FALSE
    /\ raisedBefore = FALSE

Init == Setup(TimeoutArgs) /\ overhead = 0

\* PollTimer.__init__(timeoutArg, intervalArg, jitterArg)
Construct ==
    /\ pc = "new"
    /\ pc' = "idle"
    /\ _start' = now
    /\ _timeout' = OrDefault(timeoutArg, DefaultTimeoutMs)
    /\ _interval' = OrDefault(intervalArg, DefaultIntervalMs)
    /\ _jitter_factor' = Clamp(jitterArg)
    /\ UNCHANGED << now, setBack, args, last, returnedBefore, raisedBefore, overhead >>

\* PollTimer.sleep_interval_or_raise()
Call ==
    /\ pc = "idle"
    /\ pc' = "called"
    /\ \E u \in RandomDraws : last' = Outcome(now, u)
    /\ _start' = StartAfterCall(now)
    /\ _interval' = IntervalAfterCall(last'.outcome)
    /\ returnedBefore' = (returnedBefore \/ last.outcome = "Return")
    /\ raisedBefore' = (raisedBefore \/ last.outcome = "Timeout")
    /\ UNCHANGED << now, setBack, args, _timeout, _jitter_factor, overhead >>

\* time passes (possibly none) before or between calls
Tick ==
    /\ pc \in {"new", "called"}
    /\ \E t \in ClockReadings : t >= now /\ now' = t
    /\ pc' = IF pc = "called" THEN "idle" ELSE pc
    /\ UNCHANGED << setBack, args, fields, last, returnedBefore, raisedBefore, overhead >>

\* time.time() is the wall clock: it can be set back between two calls
SetBack ==
    /\ pc = "called"
    /\ \E t \in ClockReadings : t < now /\ now' = t
    /\ setBack' = TRUE
    /\ pc' = "idle"
    /\ UNCHANGED << args, fields, last, returnedBefore, raisedBefore, overhead >>

Next == Construct \/ Call \/ Tick \/ SetBack

Spec == Init /\ [][Next]_vars

\* ------------------------------------------------------- the polling loop
\* the caller of the intended loop: construct one timer, call, sleep for the
\* returned duration (not at all when it is not positive), call again, and
\* stop when the call raises
LoopInit ==
    /\ Setup(LoopTimeoutArgs)
    /\ overhead \in { Reading(o) : o \in Overheads }

Sleep ==
    /\ pc = "called"
    /\ last.outcome = "Return"
    /\ now + MaxNum(0, last.result) + overhead <= Reading(MaxLoopClockMs)
    /\ now' = now + MaxNum(0, last.result) + overhead
    /\ pc' = "idle"
    /\ UNCHANGED << setBack, args, fields, last, returnedBefore, raisedBefore, overhead >>

LoopNext == Construct \/ Call \/ Sleep

LoopSpec == LoopInit /\ [][LoopNext]_vars /\ WF_vars(LoopNext)

\* ------------------------------------------------------------ properties
Constructed == pc # "new"
Returned == last.outcome = "Return"
Raised == last.outcome = "Timeout"
\* timeout_seconds - runtime_seconds of the latest call
Remaining == total_seconds(_timeout) - last.runtime
\* the base interval in seconds
BaseInterval == total_seconds(_interval)

\* C1: a call that returns a value returns at most timeout_seconds - runtime_seconds,
\* runtime being now - start as measured by that call, so that sleeping exactly the
\* returned duration ends no later than the deadline start + timeout.
C1_SleepWithinBudget ==
    Returned =>
        /\ last.runtime = last.clock - _start
        /\ last.result <= total_seconds(_timeout) - last.runtime
        /\ last.clock + last.result <= _start + total_seconds(_timeout)

\* C1 witness: a call whose jittered interval was clipped to the remaining budget
C1_Witness ==
    /\ Returned
    /\ last.candidate > Remaining
    /\ last.result = Remaining
    /\ last.runtime > 0

\* C2: every call that returns a value returns a non-negative duration, for every
\* timeout, interval and jitter_factor the constructor accepts.
C2_NonNegative == Returned => last.result >= 0

\* C3: with a clock that is never set back, once the elapsed time exceeds the timeout
\* it keeps exceeding it, the next call raises Timeout, and every call after a Timeout
\* raises Timeout too.
C3_TimeoutSticky ==
    [][ (Constructed /\ ~setBack') =>
          /\ (now - _start > total_seconds(_timeout))
                => (now' - _start' > total_seconds(_timeout'))
          /\ (pc = "idle" /\ pc' = "called"
                /\ (now - _start > total_seconds(_timeout) \/ Raised \/ raisedBefore))
                => last'.outcome = "Timeout" ]_vars

\* C3 witness: a Timeout raised by a call that follows an earlier Timeout
C3_Witness == ~setBack /\ Raised /\ raisedBefore

\* C4: the effective timeout (interval) is the default when none is supplied and the
\* supplied value for every supplied duration.
C4_DefaultsOnlyWhenAbsent ==
    Constructed =>
        /\ _timeout = (IF timeoutArg = None THEN DefaultTimeoutMs ELSE timeoutArg[1])
        /\ _interval = (IF intervalArg = None THEN DefaultIntervalMs ELSE intervalArg[1])

\* C5: construction always succeeds and stores max(0, min(1, jitter_factor)): inputs
\* below 0 become 0, inputs above 1 become 1, inputs in [0, 1] are kept, and the
\* stored factor is a number in [0, 1] in every state of the timer.
C5_JitterClamped ==
    /\ (pc = "new") => ENABLED Construct
    /\ Constructed =>
        /\ ~_jitter_factor.nan
        /\ _jitter_factor.v >= 0
        /\ _jitter_factor.v <= 100
        /\ ~jitterArg.nan =>
              _jitter_factor.v = (IF jitterArg.v < 0 THEN 0
                                  ELSE IF jitterArg.v > 100 THEN 100 ELSE jitterArg.v)

\* C5 witness: a timer constructed with jitter_factor -3.0, stored as 0.0, and called
C5_Witness == Constructed /\ jitterArg = Num(-300) /\ _jitter_factor = Num(0) /\ Returned

\* C6: with jitter factor 0 a call that returns draws no random value and returns
\* exactly the interval while timeout - runtime is at least the interval, and exactly
\* timeout - runtime once that is smaller (timeout 1 s, interval 100 ms: 0.1 s at
\* runtime 0, at most 0.05 s at runtime 950 ms).
C6_NoJitterExact ==
    (Returned /\ _jitter_factor = Num(0)) =>
        /\ last.draws = 0
        /\ last.result = (IF Remaining >= BaseInterval THEN BaseInterval ELSE Remaining)
        /\ (_timeout = 1000 /\ _interval = 100 /\ last.runtime = 0)
              => last.result = Reading(100)
        /\ (_timeout = 1000 /\ _interval = 100 /\ last.runtime = Reading(950))
              => last.result <= Reading(50)

\* C6 witness: timeout 1 s, interval 100 ms, no jitter, called 950 ms after construction
C6_Witness ==
    /\ Returned
    /\ _jitter_factor = Num(0)
    /\ _timeout = 1000 /\ _interval = 100
    /\ last.runtime = Reading(950)
    /\ last.result = Reading(50)

\* candidate = max(0, I + I*f*(2u - 1)), both sides scaled by 100 * UDen
CandidateAsSpecified ==
    last.candidate * 100 * UDen =
        MaxNum(0, BaseInterval * 100 * UDen
                  + BaseInterval * _jitter_factor.v * (2 * last.u - UDen))
\* the result with default arguments and no elapsed time is within [0.09, 0.11] s
DefaultsExample ==
    (_timeout = DefaultTimeoutMs /\ _interval = DefaultIntervalMs
        /\ _jitter_factor = Num(DefaultJitterPct) /\ last.runtime = 0)
    => (last.result >= Reading(90) /\ last.result <= Reading(110))

\* C7 as stated: with jitter factor f > 0 and interval I the candidate
\* max(0, I + I*f*(2u - 1)) lies within [max(0, I*(1-f)), I*(1+f)] and the returned
\* value is min(candidate, timeout - runtime).
C7_Original ==
    (Returned /\ _jitter_factor.v > 0) =>
        /\ CandidateAsSpecified
        /\ last.candidate * 100 >= MaxNum(0, BaseInterval * (100 - _jitter_factor.v))
        /\ last.candidate * 100 <= BaseInterval * (100 + _jitter_factor.v)
        /\ last.result = MinNum(Remaining, last.candidate)
        /\ DefaultsExample

\* C7 amended: the candidate lies within [max(0, I*(1-f)), max(0, I*(1+f))] (the upper
\* end is 0 for a negative interval); the rest as stated.
C7_Amended ==
    (Returned /\ _jitter_factor.v > 0) =>
        /\ last.draws = 1
        /\ CandidateAsSpecified
        /\ last.candidate * 100 >= MaxNum(0, BaseInterval * (100 - _jitter_factor.v))
        /\ last.candidate * 100 <= MaxNum(0, BaseInterval * (100 + _jitter_factor.v))
        /\ last.result = MinNum(Remaining, last.candidate)
        /\ DefaultsExample

\* C7 witness: a returned sleep whose jitter lengthened the interval
C7_Witness ==
    /\ Returned
    /\ _jitter_factor.v > 0
    /\ last.u > UDen \div 2
    /\ last.candidate > BaseInterval
    /\ last.result = last.candidate

\* C8: a call raises Timeout exactly when the runtime it measured is strictly greater
\* than the timeout, the error carries that runtime, and at runtime = timeout the call
\* returns a zero-length sleep.
C8_TimeoutIffStrictlyGreater ==
    (last.outcome # "None") =>
        /\ Raised <=> (last.runtime > total_seconds(_timeout))
        /\ Raised => last.reported = << last.runtime >>
        /\ (last.runtime = total_seconds(_timeout)) => (Returned /\ last.result = 0)

\* C9: a call, returning or raising, leaves start, timeout, interval and jitter_factor
\* as construction set them, and its outcome is a function of those fields, the clock
\* reading and the call's random draw.
C9_CallsLeaveFieldsUnchanged ==
    [][ Constructed =>
          /\ fields' = fields
          /\ (pc = "idle" /\ pc' = "called")
                => \E u \in RandomDraws : last' = Outcome(now, u) ]_vars

\* C9 witness: a call that raised after an earlier call returned
C9_Witness == Raised /\ returnedBefore /\ fields = << _start, _timeout, _interval, Clamp(jitterArg) >>

\* C10 as stated: the loop that sleeps exactly the returned duration, the clock
\* advancing only by the durations slept, eventually gets a Timeout.
C10_Original == (overhead = 0) => <>Raised

\* C10 amended: when each iteration of that loop also takes a positive amount of
\* time besides the sleep (a returned duration that is not positive being no sleep),
\* a call eventually raises Timeout, for every timeout, interval and jitter_factor.
C10_Amended == (overhead > 0) => <>Raised

\* C10 witness: the loop with a positive per-iteration time ended by a Timeout after
\* at least one sleep
C10_Witness == overhead > 0 /\ Raised /\ returnedBefore

====
